---- MODULE Spec2Model ----
\* Window / rendering-backend lifecycle of bgfx-test.
\*
\* Two lifecycle types are modelled: Application (src/src/application.rs, run
\* by main.rs through `executor` and `tick`) and WindowHandle
\* (src/src/window.rs, with its own init / run / shutdown).  The rendering
\* backend (bgfx) and the windowing library (glfw) are external: the backend is
\* the ordered log `calls` of the calls issued to it, the window is its
\* close-requested flag, its native handle and the framebuffer sizes and key
\* events it reports.
EXTENDS Integers, Sequences, FiniteSets, TLC

\* ---------------------------------------------------------------- bounds
MaxTicks == 5      \* ticks of the run loop explored
MaxTickEvents == 1 \* events drained by the pump of one tick
MaxEvents == 2     \* events drained by one direct handle_events call
MaxCalls == 4      \* public operations called by an arbitrary client
MaxApiTicks == 2   \* ticks of a run loop entered by an arbitrary client
\* ticks of a run that samples sizes from the whole i32 range
MaxConvTicks == 2

\* ------------------------------------------------------ program constants
WIDTH == 1280
HEIGHT == 720

\* ------------------------------------------------------- integer widths
\* A u32 is kept as its two 16-bit halves, so that every u32 value (also the
\* ones above 2^31) is representable.
U32(n) == [hi |-> n \div 65536, lo |-> n % 65536]

\* `x as u32` for an i32 x (two's complement wrap)
I32AsU32(x) == [hi |-> (x \div 65536) % 65536, lo |-> x % 65536]

\* `x as i32` for a u32 x
U32AsI32(u) ==
    IF u.hi >= 32768 THEN (u.hi - 65536) * 65536 + u.lo
                     ELSE u.hi * 65536 + u.lo

\* `x as u16` for a u32 x (truncation)
U32AsU16(u) == u.lo

\* `x as u16` for an i32 x (truncation)
I32AsU16_Saturate(x) == IF x < 0 THEN 0 ELSE IF x > 65535 THEN 65535 ELSE x

I32AsU16(x) == x % 65536

\* the u32 u denotes the same number as the integer x
U32Is(u, x) == x >= 0 /\ u.hi = x \div 65536 /\ u.lo = x % 65536

\* ------------------------------------------------------------ the window
\* Framebuffer sizes the window reports: pairs of i32.
FbSizes == { <<1280, 720>>, <<800, 600>>, <<1024, 768>> }

\* Creation-time metadata (title and mode do not influence the lifecycle).
Metadata(w, h) == [title |-> "Test window", width |-> U32(w), height |-> U32(h),
                   mode |-> "Windowed", debug_flags |-> "TEXT"]

\* Key events delivered to the event stream (only key polling is enabled).
Events == { [key |-> "Escape", action |-> "Press"],
            [key |-> "Escape", action |-> "Release"],
            [key |-> "Escape", action |-> "Repeat"],
            [key |-> "A",      action |-> "Press"] }

EventSeqs(max) == UNION { [1..n -> Events] : n \in 0..max }

\* Native handles: the variant raw_window_handle() returns, with its fields.
XlibHandle    == [kind |-> "Xlib", window |-> "xlib_window_id", display |-> "xlib_display_ptr"]
WaylandHandle == [kind |-> "Wayland", surface |-> "wl_surface_ptr", display |-> "wl_display_ptr"]
XcbHandle     == [kind |-> "Xcb", window |-> "xcb_window_id", connection |-> "xcb_connection_ptr"]
MacOSHandle   == [kind |-> "MacOS", ns_window |-> "ns_window_ptr", ns_view |-> "ns_view_ptr"]
Win32Handle   == [kind |-> "Win32", hwnd |-> "hwnd_ptr", hinstance |-> "hinstance_ptr"]

\* (target_os, handle) pairs: the variants the handle type has on each target.
Platforms == { <<"linux", XlibHandle>>, <<"linux", WaylandHandle>>, <<"linux", XcbHandle>>,
               <<"macos", MacOSHandle>>, <<"windows", Win32Handle>> }

None == "None"            \* no result yet
Null == "null"            \* a null pointer
NoSize == << >>           \* no instance
NoHandle == [kind |-> "None"]

VARIABLES
    variant,        \* "Application" or "WindowHandle"
    target_os,      \* build target
    metadata,       \* WindowMetadata given to try_new
    glfw,           \* the windowing library: "uninit", "failed" or "ready"
    pc,             \* position of the caller of the lifecycle
    result,         \* value returned by the last public operation / by main
    handle,         \* native handle of the window; NoHandle while no window exists
    size,           \* the `size` field of the instance; NoSize while no instance
    should_close,   \* the window's close-requested flag
    calls,          \* backend calls issued so far, in order
    lifecycle,      \* lifecycle state of the instance
    samples,        \* framebuffer sizes sampled by the ticks so far, in order
    drained,        \* events drained by the last handle_events
    steps,          \* the steps of the last tick, in the order they ran
    ticks,          \* completed ticks
    pumps,          \* completed handle_events calls
    ncalls          \* public operations called so far

vars == << variant, target_os, metadata, glfw, pc, result, handle, size, should_close,
           calls, lifecycle, samples, drained, steps, ticks, pumps, ncalls >>

\* ---------------------------------------------------------- backend calls
BgfxInit(type_r, w, h, reset, pd, ok) ==
    [op |-> "init", type_r |-> type_r, width |-> w, height |-> h,
     reset |-> reset, platform_data |-> pd, ok |-> ok]
BgfxSetDebug(flags)      == [op |-> "set_debug", flags |-> flags]
BgfxSetViewClear(rgba)   == [op |-> "set_view_clear", id |-> 0, flags |-> {"COLOR", "DEPTH"}, rgba |-> rgba]
BgfxReset(w, h)          == [op |-> "reset", width |-> w, height |-> h]
BgfxSetViewRect(w, h)    == [op |-> "set_view_rect", id |-> 0, x |-> 0, y |-> 0, width |-> w, height |-> h]
BgfxTouch                == [op |-> "touch", id |-> 0]
BgfxDbgTextClear         == [op |-> "dbg_text_clear"]
BgfxDbgText(x, y, attr)  == [op |-> "dbg_text", x |-> x, y |-> y, attr |-> attr]
BgfxFrame                == [op |-> "frame", capture |-> FALSE]
BgfxShutdown             == [op |-> "shutdown"]

\* ------------------------------------------------------------- helpers
\* get_render_type: Vulkan on linux / windows, Metal on macos
get_render_type(os) == IF os = "macos" THEN "Metal" ELSE "Vulkan"

\* get_platform_data: the arms compiled for the target; any other variant
\* panics (panic |-> TRUE, the fields then mean nothing).
get_platform_data_WaylandAsXlib(os, h) ==
    IF os = "linux" /\ h.kind = "Xlib"
        THEN [panic |-> FALSE, nwh |-> h.window, ndt |-> h.display]
    ELSE IF os = "linux" /\ h.kind = "Wayland"
        THEN [panic |-> FALSE, nwh |-> h.surface, ndt |-> h.display]
    ELSE IF os = "macos" /\ h.kind = "MacOS"
        THEN [panic |-> FALSE, nwh |-> h.ns_window, ndt |-> Null]
    ELSE IF os = "windows" /\ h.kind = "Win32"
        THEN [panic |-> FALSE, nwh |-> h.hwnd, ndt |-> Null]
    ELSE [panic |-> TRUE, nwh |-> Null, ndt |-> Null]

get_platform_data(os, h) ==
    IF os = "linux" /\ h.kind = "Xlib"
        THEN [panic |-> FALSE, nwh |-> h.window, ndt |-> h.display]
    ELSE IF os = "linux" /\ h.kind = "Wayland"
        THEN [panic |-> FALSE, nwh |-> h.display, ndt |-> h.surface]
    ELSE IF os = "macos" /\ h.kind = "MacOS"
        THEN [panic |-> FALSE, nwh |-> h.ns_window, ndt |-> Null]
    ELSE IF os = "windows" /\ h.kind = "Win32"
        THEN [panic |-> FALSE, nwh |-> h.hwnd, ndt |-> Null]
    ELSE [panic |-> TRUE, nwh |-> Null, ndt |-> Null]

\* the closure of handle_events applied to one event
IsEscapePress_AnyAction(ev) == ev.key = "Escape"

IsEscapePress(ev) == ev.key = "Escape" /\ ev.action = "Press"

\* handle_events: the close-requested flag after draining evs in arrival order
RECURSIVE handle_events(_, _)
handle_events(flag, evs) ==
    IF evs = << >> THEN flag
    ELSE handle_events(IF IsEscapePress(Head(evs)) THEN TRUE ELSE flag, Tail(evs))

\* the per-frame calls that follow the reset gate
FrameCalls_NoSubmit(w16, h16) ==
    << BgfxSetViewRect(w16, h16), BgfxTouch, BgfxDbgTextClear,
       BgfxDbgText(0, 1, 15), BgfxDbgText(80, 1, 15), BgfxDbgText(80, 2, 15),
       BgfxDbgText(0, 4, 63) >>

FrameCalls(w16, h16) ==
    << BgfxSetViewRect(w16, h16), BgfxTouch, BgfxDbgTextClear,
       BgfxDbgText(0, 1, 15), BgfxDbgText(80, 1, 15), BgfxDbgText(80, 2, 15),
       BgfxDbgText(0, 4, 63), BgfxFrame >>

\* the comparison of the reset gate
SizeChanged_Always(old, new) == TRUE

SizeChanged(old, new) == old # new

\* Application: the size the tick compares and passes on (i32 pair as u32 pair)
AppTickSize(s) == << I32AsU32(s[1]), I32AsU32(s[2]) >>

\* Application: backend calls of one tick (main.rs tick)
AppTickCalls(old, s) ==
    LET sz == AppTickSize(s) IN
    (IF SizeChanged(old, sz) THEN << BgfxReset(sz[1], sz[2]) >> ELSE << >>)
    \o FrameCalls(U32AsU16(sz[1]), U32AsU16(sz[2]))

\* WindowHandle: backend calls of one loop iteration (window.rs run)
WhTickCalls(old, s) ==
    (IF SizeChanged(old, s) THEN << BgfxReset(I32AsU32(s[1]), I32AsU32(s[2])) >> ELSE << >>)
    \o FrameCalls(I32AsU16(s[1]), I32AsU16(s[2]))

\* the size field after a tick
AppTickRecorded_Keep(old, s) == old

AppTickRecorded(old, s) == IF SizeChanged(old, AppTickSize(s)) THEN AppTickSize(s) ELSE old
WhTickRecorded(old, s) == IF SizeChanged(old, s) THEN s ELSE old

\* the size field set by try_new
AppNewSize_Swapped(md) == << md.height, md.width >>

WhNewSize_Zero(md) == << 0, 0 >>

AppNewSize(md) == << md.width, md.height >>
WhNewSize(md) == << U32AsI32(md.width), U32AsI32(md.height) >>

\* the resolution init passes to the backend, as <<width, height>>
AppInitResolution(sz) == << sz[2], sz[1] >>
WhInitResolution(sz) == << U32(0), U32(0) >>

\* the calls init issues after a successful backend init
AppInitTail == << >>
WhInitTail(md) == << BgfxSetDebug(md.debug_flags), BgfxSetViewClear("0x103030ff") >>

\* the calls executor issues before its loop
ExecutorHead(md) == << BgfxSetDebug(md.debug_flags), BgfxSetViewClear("0x443355FF") >>

\* the value init returns for the backend's answer
InitResult_AlwaysOk(ok) == "Ok"

InitResult(ok) == IF ok THEN "Ok" ELSE "Bgfx"

\* the `?` of main: where the caller continues after a call returned r
Propagate_Ignore(r, pcOk, pcErr) == pcOk

Propagate(r, pcOk, pcErr) == IF r = "Ok" THEN pcOk ELSE pcErr

\* ------------------------------------------------------------ operations
\* the value try_new returns for the answers of glfw::init and create_window
TryNewResult_WindowIsGlfw(glfwOk, windowOk) ==
    IF ~glfwOk \/ ~windowOk THEN "Glfw" ELSE "Ok"

TryNewResult(glfwOk, windowOk) ==
    IF ~glfwOk THEN "Glfw" ELSE IF ~windowOk THEN "Window" ELSE "Ok"

\* try_new: glfw::init, then create_window
try_new(glfwOk, windowOk, h, pcOk, pcErr) ==
    /\ size = NoSize
    /\ result = None
    /\ glfw' = IF glfwOk THEN "ready" ELSE "failed"
    /\ result' = TryNewResult(glfwOk, windowOk)
    /\ pc' = Propagate(TryNewResult(glfwOk, windowOk), pcOk, pcErr)
    /\ IF ~glfwOk THEN
           UNCHANGED << handle, size, lifecycle >>
       ELSE IF ~windowOk THEN
           UNCHANGED << handle, size, lifecycle >>
       ELSE
           /\ handle' = h
           /\ size' = IF variant = "Application" THEN AppNewSize(metadata)
                                                 ELSE WhNewSize(metadata)
           /\ lifecycle' = "Created"
    /\ UNCHANGED << variant, target_os, metadata, steps, should_close, calls,
                    samples, drained, ticks, pumps >>

\* init: build the init parameters, start the backend
init(ok, pcOk, pcErr) ==
    /\ size # NoSize
    /\ LET pd  == get_platform_data(target_os, handle)
           res == IF variant = "Application" THEN AppInitResolution(size)
                                             ELSE WhInitResolution(size)
           req == BgfxInit(get_render_type(target_os), res[1], res[2], {"VSYNC"}, pd, ok)
       IN IF pd.panic THEN
              /\ result' = "panic"
              /\ pc' = "panicked"
              /\ UNCHANGED << calls, lifecycle >>
          ELSE IF InitResult(ok) # "Ok" THEN
              /\ result' = InitResult(ok)
              /\ pc' = Propagate(InitResult(ok), pcOk, pcErr)
              /\ calls' = Append(calls, req)
              /\ UNCHANGED lifecycle
          ELSE
              /\ result' = "Ok"
              /\ pc' = Propagate("Ok", pcOk, pcErr)
              /\ calls' = Append(calls, req)
                          \o (IF variant = "Application" THEN AppInitTail
                                                         ELSE WhInitTail(metadata))
              /\ lifecycle' = "BackendInitialized"
    /\ UNCHANGED << variant, target_os, metadata, glfw, steps, handle, size, should_close,
                    samples, drained, ticks, pumps >>

\* run: entry of the run loop (make_current, set_key_polling; for Application
\* the head of executor)
run ==
    /\ size # NoSize
    /\ pc' = "running"
    /\ calls' = calls \o (IF variant = "Application" THEN ExecutorHead(metadata) ELSE << >>)
    /\ lifecycle' = "Running"
    /\ UNCHANGED << variant, target_os, metadata, glfw, steps, result, handle, size, should_close,
                    samples, drained, ticks, pumps >>

\* the order of the steps of a tick: the pump, the sample, the backend calls
TickSteps_SampleFirst(issued) ==
    << "get_framebuffer_size", "handle_events" >> \o [ i \in 1..Len(issued) |-> issued[i].op ]

TickSteps(issued) ==
    << "handle_events", "get_framebuffer_size" >> \o [ i \in 1..Len(issued) |-> issued[i].op ]

\* one iteration of the run loop: the close test was false
tick(bound, sizes) ==
    /\ pc = "running"
    /\ ~should_close
    /\ ticks < bound
    /\ \E evs \in EventSeqs(MaxTickEvents), s \in sizes :
          /\ drained' = evs
          /\ should_close' = handle_events(should_close, evs)
          /\ samples' = Append(samples, s)
          /\ steps' = TickSteps(IF variant = "Application" THEN AppTickCalls(size, s)
                                                           ELSE WhTickCalls(size, s))
          /\ calls' = calls \o (IF variant = "Application" THEN AppTickCalls(size, s)
                                                           ELSE WhTickCalls(size, s))
          /\ size' = IF variant = "Application" THEN AppTickRecorded(size, s)
                                                ELSE WhTickRecorded(size, s)
    /\ ticks' = ticks + 1
    /\ pumps' = pumps + 1
    /\ UNCHANGED << variant, target_os, metadata, glfw, pc, result, handle, lifecycle, ncalls >>

\* exit of the run loop: the close test was true.  executor then shuts the
\* backend down; WindowHandle::run just returns.
RunExitCalls_NoShutdown(v) == << >>

RunExitCalls(v) == IF v = "Application" THEN << BgfxShutdown >> ELSE << >>

run_exit(pcAfter) ==
    /\ pc = "running"
    /\ should_close
    /\ pc' = pcAfter
    /\ result' = "Ok"
    /\ calls' = calls \o RunExitCalls(variant)
    /\ lifecycle' = "Closed"
    /\ UNCHANGED << variant, target_os, metadata, glfw, steps, handle, size, should_close,
                    samples, drained, ticks, pumps, ncalls >>

\* WindowHandle::shutdown
shutdown ==
    /\ size # NoSize
    /\ variant = "WindowHandle"
    /\ calls' = Append(calls, BgfxShutdown)
    /\ result' = "Ok"
    /\ UNCHANGED << variant, target_os, metadata, glfw, steps, pc, handle, size, should_close,
                    lifecycle, samples, drained, ticks, pumps >>

\* ------------------------------------------------- main.rs: the program
MainTryNew ==
    /\ pc = "start"
    /\ \E glfwOk \in BOOLEAN, windowOk \in BOOLEAN, p \in Platforms :
          /\ p[1] = target_os
          /\ try_new(glfwOk, windowOk, p[2], "created", "failed")
    /\ UNCHANGED ncalls

MainInit ==
    /\ pc = "created"
    /\ \E ok \in BOOLEAN : init(ok, "inited", "failed")
    /\ UNCHANGED ncalls

MainRun ==
    /\ pc = "inited"
    /\ run
    /\ UNCHANGED ncalls

MainTick == tick(MaxTicks, FbSizes)

MainRunExit == run_exit("done")

InitMain ==
    /\ variant = "Application"
    /\ target_os \in { p[1] : p \in Platforms }
    /\ metadata = Metadata(WIDTH, HEIGHT)
    /\ glfw = "uninit"
    /\ pc = "start"
    /\ result = None
    /\ handle = NoHandle
    /\ size = NoSize
    /\ should_close = FALSE
    /\ calls = << >>
    /\ lifecycle = "Uninitialized"
    /\ samples = << >>
    /\ drained = << >>
    /\ steps = << >>
    /\ ticks = 0
    /\ pumps = 0
    /\ ncalls = 0

Next == MainTryNew \/ MainInit \/ MainRun \/ MainTick \/ MainRunExit

Spec == InitMain /\ [][Next]_vars

\* ------------------------------------- an arbitrary client of the lifecycle
\* The public operations, called in any order on one instance: try_new, init,
\* run (with main.rs's executor), and shutdown (WindowHandle) or handle_events
\* (Application), which are the `pub fn`s of the two types.
CallTryNew ==
    /\ pc = "idle"
    /\ ncalls < MaxCalls
    /\ \E glfwOk \in BOOLEAN, windowOk \in BOOLEAN, p \in Platforms :
          /\ p[1] = target_os
          /\ try_new(glfwOk, windowOk, p[2], "idle", "idle")
    /\ ncalls' = ncalls + 1

CallInit ==
    /\ pc = "idle"
    /\ ncalls < MaxCalls
    /\ \E ok \in BOOLEAN : init(ok, "idle", "idle")
    /\ ncalls' = ncalls + 1

CallRun ==
    /\ pc = "idle"
    /\ ncalls < MaxCalls
    /\ run
    /\ ncalls' = ncalls + 1

CallTick == tick(MaxApiTicks, FbSizes)

CallRunExit == run_exit("idle")

CallShutdown ==
    /\ pc = "idle"
    /\ ncalls < MaxCalls
    /\ shutdown
    /\ ncalls' = ncalls + 1

\* Application::handle_events is public
CallHandleEvents ==
    /\ pc = "idle"
    /\ ncalls < MaxCalls
    /\ variant = "Application"
    /\ size # NoSize
    /\ \E evs \in EventSeqs(MaxEvents) :
          /\ drained' = evs
          /\ should_close' = handle_events(should_close, evs)
    /\ pumps' = pumps + 1
    /\ ncalls' = ncalls + 1
    /\ UNCHANGED << variant, target_os, metadata, glfw, steps, pc, result, handle, size, calls,
                    lifecycle, samples, ticks >>

InitApi ==
    /\ variant \in { "Application", "WindowHandle" }
    /\ target_os = "macos"
    /\ metadata \in { Metadata(WIDTH, HEIGHT), Metadata(800, 600) }
    /\ glfw = "uninit"
    /\ pc = "idle"
    /\ result = None
    /\ handle = NoHandle
    /\ size = NoSize
    /\ should_close = FALSE
    /\ calls = << >>
    /\ lifecycle = "Uninitialized"
    /\ samples = << >>
    /\ drained = << >>
    /\ steps = << >>
    /\ ticks = 0
    /\ pumps = 0
    /\ ncalls = 0

NextApi == CallTryNew \/ CallInit \/ CallRun \/ CallTick \/ CallRunExit
           \/ CallShutdown \/ CallHandleEvents

SpecApi == InitApi /\ [][NextApi]_vars

\* --------------------------- an arbitrary client of Application, with progress
\* The public operations of Application in any order.  The run loop is
\* straight-line code on one thread: once its close test is true it leaves the
\* loop (weak fairness of the exit step).
InitApp ==
    /\ InitApi
    /\ variant = "Application"
    /\ metadata = Metadata(WIDTH, HEIGHT)

NextApp == CallTryNew \/ CallInit \/ CallRun \/ CallTick \/ CallRunExit
           \/ CallHandleEvents

LiveApp == InitApp /\ [][NextApp]_vars /\ WF_vars(CallRunExit)

\* ------------------------------- the main order with sizes of the whole range
\* get_framebuffer_size returns a pair of i32: sizes inside 0..65535, at and
\* above 65536, negative, and the two ends of the i32 range.
ConvSizes ==
    { << 1280, 720 >>, << 65535, 0 >>, << 65536, 70000 >>, << -1, -720 >>,
      << 2147483647, -2147483647 - 1 >> }

ConvTick == tick(MaxConvTicks, ConvSizes)

InitConv ==
    /\ variant \in { "Application", "WindowHandle" }
    /\ target_os = "macos"
    /\ metadata = Metadata(WIDTH, HEIGHT)
    /\ glfw = "uninit"
    /\ pc = "start"
    /\ result = None
    /\ handle = NoHandle
    /\ size = NoSize
    /\ should_close = FALSE
    /\ calls = << >>
    /\ lifecycle = "Uninitialized"
    /\ samples = << >>
    /\ drained = << >>
    /\ steps = << >>
    /\ ticks = 0
    /\ pumps = 0
    /\ ncalls = 0

NextConv == MainTryNew \/ MainInit \/ MainRun \/ ConvTick \/ MainRunExit

SpecConv == InitConv /\ [][NextConv]_vars

\* ------------------------------------------------------ reading the log
CallIdx(op) == { i \in 1..Len(calls) : calls[i].op = op }
Count(op) == Cardinality(CallIdx(op))

\* the successful backend inits
InitOkIdx == { i \in CallIdx("init") : calls[i].ok }

\* frames submitted before call i: call i belongs to tick FramesBefore(i) + 1
FramesBefore(i) == Cardinality({ j \in 1..(i - 1) : calls[j].op = "frame" })

\* the resets issued in tick k
ResetsOfTick(k) == { i \in CallIdx("reset") : FramesBefore(i) = k - 1 }

\* the output surface size of the backend: the resolution of the last
\* successful init or reset, as <<width, height>>
SurfaceIdx == InitOkIdx \cup CallIdx("reset")
Surface ==
    LET i == CHOOSE m \in SurfaceIdx : \A n \in SurfaceIdx : n <= m
    IN << calls[i].width, calls[i].height >>

\* the u32 pair p denotes the i32 pair s
SameSize(p, s) == U32Is(p[1], s[1]) /\ U32Is(p[2], s[2])

\* the width and height the window was created with
Creation == << metadata.width, metadata.height >>

Last(q) == q[Len(q)]

\* ----------------------------------------------------------------- C1
\* C1: whenever init succeeded and a tick has just submitted its frame, the
\* backend's output surface size (the resolution last given by init or reset)
\* equals the framebuffer size sampled in that tick.
C1_SurfaceSync ==
    (InitOkIdx # {} /\ Len(calls) > 0 /\ Last(calls).op = "frame")
        => SameSize(Surface, Last(samples))

\* ----------------------------------------------------------------- C2
\* C2: in every tick after the first, a reset is issued iff the size sampled
\* in the tick differs from the size sampled in the previous tick, at most one
\* reset is issued, and its width and height are the newly sampled size.
C2_ResetOnChange ==
    \A k \in 2..ticks :
        /\ Cardinality(ResetsOfTick(k)) = (IF samples[k] # samples[k-1] THEN 1 ELSE 0)
        /\ \A i \in ResetsOfTick(k) :
              SameSize(<< calls[i].width, calls[i].height >>, samples[k])

\* the reset pattern of ticks 1..n read from the log
ResetPattern == [ k \in 1..ticks |-> ResetsOfTick(k) # {} ]

\* the sequence (800,600),(800,600),(1024,768),(1024,768),(800,600) has been
\* run after another size and gave T,F,T,F,T
C2_Witness ==
    /\ samples = << <<800, 600>>, <<800, 600>>, <<1024, 768>>, <<1024, 768>>, <<800, 600>> >>
    /\ ResetPattern = << TRUE, FALSE, TRUE, FALSE, TRUE >>

\* ----------------------------------------------------------------- C3
\* C3 as stated: the first tick issues a reset whatever size it samples.
C3_FirstTickResets == ticks >= 1 => ResetsOfTick(1) # {}

\* C3 amended: the gate starts with the creation-time size, so the first tick
\* issues a reset iff the size it samples differs from the width and height
\* the window was created with, and an immediately following tick with the
\* same size issues none.
C3_FirstTickGate ==
    /\ ticks >= 1 =>
          Cardinality(ResetsOfTick(1)) = (IF SameSize(Creation, samples[1]) THEN 0 ELSE 1)
    /\ (ticks >= 2 /\ samples[2] = samples[1]) => ResetsOfTick(2) = {}

\* a first tick at the creation size issued nothing, and so did the next one
C3_Witness ==
    /\ ticks = 2
    /\ SameSize(Creation, samples[1])
    /\ samples[2] = samples[1]
    /\ Count("reset") = 0

\* ----------------------------------------------------------------- C4
\* C4: created 1280 x 720 windowed and initialised, a first tick whose
\* framebuffer size is the creation size and that drains no event issues no
\* reset and exactly one frame submit.
C4_SingleTick ==
    (/\ metadata = Metadata(1280, 720)
     /\ InitOkIdx # {}
     /\ ticks = 1
     /\ samples = << <<1280, 720>> >>
     /\ drained = << >>)
        => Count("reset") = 0 /\ Count("frame") = 1

C4_Witness ==
    /\ metadata = Metadata(1280, 720)
    /\ metadata.mode = "Windowed"
    /\ InitOkIdx # {}
    /\ ticks = 1
    /\ samples = << <<1280, 720>> >>
    /\ drained = << >>
    /\ Count("frame") = 1

\* ----------------------------------------------------------------- C5
\* C5: no backend call other than init is issued before a successful init,
\* every reset and frame submit precedes the shutdown, and shutdown is never
\* called without a successful init.
C5_CallOrder ==
    LET inits == InitOkIdx
        downs == CallIdx("shutdown")
    IN /\ \A i \in 1..Len(calls) :
             calls[i].op # "init" => \E j \in inits : j < i
       /\ \A i \in CallIdx("reset") \cup CallIdx("frame") :
             \A j \in downs : i < j
       /\ downs # {} => inits # {}

\* a run with a reset and a frame has been shut down
C5_Witness ==
    /\ Count("shutdown") = 1
    /\ Count("reset") >= 1
    /\ Count("frame") >= 2
    /\ pc = "done"

\* ----------------------------------------------------------------- C6
\* C6: for any sequence of calls to the public operations, once init has
\* succeeded and the run loop has exited, shutdown is called at most once,
\* only after the last tick, and no backend call follows it.
C6_ShutdownOnce ==
    (InitOkIdx # {} /\ lifecycle = "Closed") =>
        /\ Count("shutdown") <= 1
        /\ \A j \in CallIdx("shutdown") : j = Len(calls)

\* ----------------------------------------------------------------- C7
\* C7: for any sequence of calls to the public operations, the lifecycle state
\* only moves forward through Uninitialized, Created, BackendInitialized,
\* Running, Closed, platform data is never built before the window exists, and
\* the backend's init is invoked at most once.
Rank(st) ==
    CASE st = "Uninitialized" -> 0
      [] st = "Created" -> 1
      [] st = "BackendInitialized" -> 2
      [] st = "Running" -> 3
      [] st = "Closed" -> 4

C7_ForwardOnly ==
    [][ /\ Rank(lifecycle') >= Rank(lifecycle)
        /\ Count("init")' <= 1
        /\ (Count("init")' > 0 => handle' # NoHandle) ]_vars

\* ----------------------------------------------------------------- C8
\* C8: every tick ends with exactly one frame submit, with or without a reset
\* and with or without a close request in the tick: the frames submitted equal
\* the completed ticks, and the last call of a tick is its frame submit.
C8_FramePerTick ==
    [][ /\ Count("frame")' = ticks'
        /\ ticks' = ticks + 1 => Last(calls').op = "frame" ]_vars

\* a tick with a reset, one without, and a close request in the last tick
C8_Witness ==
    /\ ticks = 2
    /\ Count("reset") = 1
    /\ should_close
    /\ pc = "running"
    /\ Count("frame") = 2

\* ----------------------------------------------------------------- C9
\* C9: a handle_events call sets the close-requested flag iff the drained
\* queue holds an Escape key press, and never clears it: the flag after the
\* call is the flag before it, or-ed with "some drained event is an Escape
\* press" (release and repeat of Escape do not count).
HasEscapePress(evs) ==
    \E i \in 1..Len(evs) : evs[i] = [key |-> "Escape", action |-> "Press"]

C9_CloseOnEscape ==
    [][ pumps' = pumps + 1 =>
          should_close' = (should_close \/ HasEscapePress(drained')) ]_vars

\* the flag was set by an earlier pump and a later pump drained nothing
C9_Witness ==
    /\ pumps >= 2
    /\ drained = << >>
    /\ should_close
    /\ pc = "idle"

\* an Escape release and repeat were drained and the flag is still unset
C9_WitnessRelease ==
    /\ pc = "idle"
    /\ pumps >= 1
    /\ drained = << [key |-> "Escape", action |-> "Release"],
                    [key |-> "Escape", action |-> "Repeat"] >>
    /\ ~should_close

\* ---------------------------------------------------------------- C10
\* C10: when the backend's init returns false, init returns the Bgfx error,
\* the run loop is never entered and no further backend call is made.
InitFailedIdx == { i \in CallIdx("init") : ~calls[i].ok }

C10_InitFailureStops ==
    InitFailedIdx # {} =>
        /\ result = "Bgfx"
        /\ pc = "failed"
        /\ Len(calls) = 1
        /\ lifecycle = "Created"
        /\ ticks = 0

C10_Witness ==
    /\ InitFailedIdx # {}
    /\ result = "Bgfx"
    /\ pc = "failed"


\* ---------------------------------------------------------------- C11
\* C11: when glfw::init fails try_new returns the Glfw error, when the window
\* cannot be created it returns the Window error; in both cases no instance
\* exists and no backend call is made in the execution; and in every
\* execution the window exists before the first backend call.
C11_CreationFailure ==
    /\ glfw = "failed" => result = "Glfw"
    /\ (glfw = "ready" /\ handle = NoHandle) => result = "Window"
    /\ result \in { "Glfw", "Window" } =>
          /\ size = NoSize
          /\ handle = NoHandle
          /\ lifecycle = "Uninitialized"
          /\ calls = << >>
          /\ pc = "failed"
    /\ calls # << >> => (handle # NoHandle /\ glfw = "ready")

\* the window could not be created although glfw was initialised
C11_Witness ==
    /\ glfw = "ready"
    /\ handle = NoHandle
    /\ result = "Window"
    /\ pc = "failed"


\* ---------------------------------------------------------------- C12
\* C12: when the window's native handle is not one of the supported variants,
\* init fails with an explicit failure result returned to the top-level caller
\* (no abort of the process), and the backend's init is not called.
SupportedKinds == { "Xlib", "Wayland", "MacOS", "Win32" }

C12_TypedFailure ==
    (handle # NoHandle /\ handle.kind \notin SupportedKinds /\ pc # "created") =>
        /\ pc = "failed"
        /\ result \notin { "Ok", "panic", None }
        /\ Count("init") = 0

\* ---------------------------------------------------------------- C13
\* C13: the platform data init hands to the backend follows the mapping table:
\* Xlib: window handle = window id, display type = display pointer; Wayland:
\* window handle = display pointer, display type = surface pointer; macOS:
\* window handle = ns-window pointer; Win32: window handle = hwnd pointer, the
\* last two with the display type left null; and building it changes nothing
\* of the lifecycle (window handle, size, close flag).
MappingTable(h) ==
    CASE h.kind = "Xlib"    -> [nwh |-> h.window,    ndt |-> h.display]
      [] h.kind = "Wayland" -> [nwh |-> h.display,   ndt |-> h.surface]
      [] h.kind = "MacOS"   -> [nwh |-> h.ns_window, ndt |-> Null]
      [] h.kind = "Win32"   -> [nwh |-> h.hwnd,      ndt |-> Null]

C13_PlatformMapping ==
    [][ \A i \in CallIdx("init")' :
          /\ handle'.kind \in SupportedKinds
          /\ calls'[i].platform_data.nwh = MappingTable(handle').nwh
          /\ calls'[i].platform_data.ndt = MappingTable(handle').ndt
          /\ (i > Len(calls) =>
                handle' = handle /\ size' = size /\ should_close' = should_close) ]_vars

\* init has handed the platform data of a Wayland window to the backend
C13_Witness ==
    /\ handle # NoHandle
    /\ handle.kind = "Wayland"
    /\ Count("init") = 1
    /\ calls[1].platform_data.nwh = "wl_display_ptr"
    /\ calls[1].platform_data.ndt = "wl_surface_ptr"

\* ---------------------------------------------------------------- C14
\* C14: init starts the backend with resolution width 0 and height 0, with
\* reset flags that include vertical sync, and with the platform data resolved
\* from the window's native handle, for every creation-time width and height.
C14_InitParameters ==
    \A i \in CallIdx("init") :
        /\ calls[i].width = U32(0)
        /\ calls[i].height = U32(0)
        /\ "VSYNC" \in calls[i].reset
        /\ calls[i].platform_data.nwh = MappingTable(handle).nwh
        /\ calls[i].platform_data.ndt = MappingTable(handle).ndt


\* ---------------------------------------------------------------- C15
\* C15: the close-requested flag is tested before every tick: a tick starts
\* only with the flag unset (so none runs when the loop is entered with the
\* flag set, and none follows a tick that set it); a tick that sets the flag
\* still ends with its frame submit; the loop is left only with the flag set
\* (never when it stays unset); and once the flag is set in the loop, the loop
\* exits and the backend shutdown follows.
C15_CooperativeClose ==
    /\ [][ /\ ticks' = ticks + 1 => (~should_close /\ Last(calls').op = "frame")
           /\ (lifecycle = "Running" /\ lifecycle' # "Running") =>
                 (should_close /\ lifecycle' = "Closed") ]_vars
    /\ (pc = "running" /\ should_close)
          ~> (lifecycle = "Closed" /\ pc = "idle" /\ Last(calls).op = "shutdown")

\* the loop was entered with the flag already set and left without a tick
C15_WitnessPreset ==
    /\ lifecycle = "Closed"
    /\ should_close
    /\ ticks = 0
    /\ Count("shutdown") = 1

\* a tick set the flag, submitted its frame, and the loop was left
C15_Witness ==
    /\ lifecycle = "Closed"
    /\ ticks = 2
    /\ Count("frame") = 2
    /\ HasEscapePress(drained)
    /\ Last(calls).op = "shutdown"


\* ---------------------------------------------------------------- C16
\* the backend calls a step appended to the log
Issued == SubSeq(calls', Len(calls) + 1, Len(calls'))

\* positions of a step name in the steps of the last tick
StepIdx(st, name) == { i \in 1..Len(st) : st[i] = name }

\* C16: in every tick the event pump is the first step and runs once, the
\* framebuffer size is sampled second and exactly once, the steps after the
\* sample are the backend calls the tick appended to the log, a reset (if any) is
\* the first of them and so precedes set_view_rect and touch, the frame submit
\* is the last and only one, and the view rect carries the size sampled in
\* this tick.
C16_TickOrder ==
    [][ ticks' = ticks + 1 =>
          /\ Len(steps') >= 3
          /\ StepIdx(steps', "handle_events") = { 1 }
          /\ StepIdx(steps', "get_framebuffer_size") = { 2 }
          /\ pumps' = pumps + 1
          /\ Len(samples') = Len(samples) + 1
          /\ SubSeq(steps', 3, Len(steps')) = [ i \in 1..Len(Issued) |-> Issued[i].op ]
          /\ StepIdx(steps', "reset") \subseteq { 3 }
          /\ \A i \in StepIdx(steps', "reset"), j \in StepIdx(steps', "set_view_rect")
                                                      \cup StepIdx(steps', "touch") : i < j
          /\ StepIdx(steps', "frame") = { Len(steps') }
          /\ Cardinality(StepIdx(steps', "set_view_rect")) = 1
          /\ \A j \in 1..Len(Issued) : Issued[j].op = "set_view_rect" =>
                /\ Issued[j].width = Last(samples')[1]
                /\ Issued[j].height = Last(samples')[2]
      ]_vars

\* a tick that pumped an Escape press, sampled a new size and reset before
\* the view rect
C16_Witness ==
    /\ ticks >= 1
    /\ HasEscapePress(drained)
    /\ steps[3] = "reset"
    /\ steps[4] = "set_view_rect"
    /\ Last(steps) = "frame"
    /\ Last(samples) = << 1024, 768 >>


\* ---------------------------------------------------------------- C17
\* the recorded size sz holds the pair p of u32 values (Application keeps
\* u32 values, WindowHandle the i32 values as sampled)
RecordedIs(sz, p) ==
    IF variant = "Application" THEN sz = p ELSE SameSize(p, sz)

\* the recorded size sz is the sampled size s
RecordedIsSample(sz, s) ==
    IF variant = "Application" THEN SameSize(sz, s) ELSE sz = s

\* C17: once the window exists, the recorded size is changed only by a tick
\* that issues a reset, and becomes the width and height passed to that
\* reset; a tick without a reset and a handle_events call leave it unchanged;
\* after every tick it is the size sampled in that tick.
C17_RecordedWithReset ==
    [][ /\ (size # NoSize /\ size' # size) =>
              /\ ticks' = ticks + 1
              /\ Issued[1].op = "reset"
              /\ RecordedIs(size', << Issued[1].width, Issued[1].height >>)
        /\ ticks' = ticks + 1 =>
              /\ RecordedIsSample(size', Last(samples'))
              /\ (Issued[1].op # "reset" => size' = size)
        /\ (pumps' = pumps + 1 /\ ticks' = ticks) => size' = size
      ]_vars

\* two ticks: the first reset and recorded a new size, the second sampled the
\* same size and left the record alone
C17_Witness ==
    /\ ticks = 2
    /\ samples = << <<800, 600>>, <<800, 600>> >>
    /\ Cardinality(ResetsOfTick(1)) = 1
    /\ ResetsOfTick(2) = {}
    /\ RecordedIsSample(size, << 800, 600 >>)

\* a direct handle_events call after a recorded change left the size alone
C17_WitnessPump ==
    /\ variant = "Application"
    /\ ticks >= 1
    /\ pumps > ticks
    /\ Count("reset") >= 1
    /\ size = << U32(800), U32(600) >>


\* ---------------------------------------------------------------- C18
\* the tick (counted from 1) that issued call i
TickOf(i) == FramesBefore(i) + 1

\* the u32 value u is the two's complement reading of the i32 value x
WrapsU32(u, x) ==
    IF x >= 0 THEN U32Is(u, x)
              ELSE u.hi >= 32768 /\ (u.hi - 65536) * 65536 + u.lo = x

\* the u16 value v is x modulo 2^16
WrapsU16(v, x) == v \in 0..65535 /\ (x - v) % 65536 = 0

\* C18 as stated: for every sampled size, the width and height of the reset
\* and of the view rect of the tick equal the sampled width and height.
C18_NoLoss ==
    /\ \A i \in CallIdx("reset") :
          SameSize(<< calls[i].width, calls[i].height >>, samples[TickOf(i)])
    /\ \A i \in CallIdx("set_view_rect") :
          << calls[i].width, calls[i].height >> = samples[TickOf(i)]

\* C18 amended: a sampled dimension inside 0..65535 reaches reset and
\* set_view_rect unchanged.  Outside that range the conversions wrap: reset
\* gets a non-negative dimension unchanged and a negative one plus 2^32, and
\* set_view_rect gets the dimension modulo 2^16.
C18_Conversions ==
    /\ \A i \in CallIdx("reset") : \A d \in 1..2 :
          LET x == samples[TickOf(i)][d]
              u == IF d = 1 THEN calls[i].width ELSE calls[i].height
          IN  WrapsU32(u, x)
    /\ \A i \in CallIdx("set_view_rect") : \A d \in 1..2 :
          LET x == samples[TickOf(i)][d]
              v == IF d = 1 THEN calls[i].width ELSE calls[i].height
          IN  /\ WrapsU16(v, x)
              /\ x \in 0..65535 => v = x

\* a tick sampled 65536 x 70000 and the next -1 x -720: both reset, and the
\* view rects were 0 x 4464 and 65535 x 64816
C18_Witness ==
    /\ samples = << << 65536, 70000 >>, << -1, -720 >> >>
    /\ Count("reset") = 2
    /\ \E i, j \in CallIdx("set_view_rect") :
          /\ i < j
          /\ << calls[i].width, calls[i].height >> = << 0, 4464 >>
          /\ << calls[j].width, calls[j].height >> = << 65535, 64816 >>
    /\ \E i \in CallIdx("reset") :
          calls[i].width = [hi |-> 65535, lo |-> 65535]

====
